---- MODULE Spec2Model ----
(***************************************************************************)
(* PulseWatch health-check subsystem: the liveness and readiness views     *)
(* (core/health/views.py), the two dependency probes                       *)
(* (core/health/checks.py) and the Prometheus series they write            *)
(* (core/middleware/metrics.py).                                           *)
(*                                                                         *)
(* A worker handles one request at a time, synchronously.  Each step of a  *)
(* handler that touches something shared (the database, the cache, the     *)
(* metric series) is one action, so the dependencies can change state      *)
(* between any two steps of a request.  Every action takes the worker as   *)
(* its parameter; Spec runs the requests of one worker one after another.  *)
(*                                                                         *)
(* What lies around the views has a specification of its own per layer:    *)
(* SpecMetrics (MetricsMiddleware), SpecLogging                            *)
(* (StructuredLoggingMiddleware), SpecClientIp (_get_client_ip),           *)
(* SpecDispatch (the URL configurations) and SpecAuth (the views'          *)
(* api_view wrapper); the variable stack holds the state of that layer.    *)
(*                                                                         *)
(* Units: a clock reading is a time.time() value in ticks of 0.01 ms; a    *)
(* latency_ms before rounding is in thousandths of a millisecond, and the  *)
(* latency_ms of a result is in hundredths of a millisecond, which is what *)
(* round(latency_ms, 2) leaves.                                            *)
(***************************************************************************)
EXTENDS Integers, Sequences, FiniteSets, TLC

VARIABLES
    db_up,                  \* the database answers the SELECT 1 round-trip
    cache_up,               \* the cache backend answers set/get
    cache_store,            \* value held under the key 'health_check'
    health_check_duration,  \* histogram: number of observations per check_name
    health_check_status,    \* gauge: last value set per check_name
    patched,                \* probes replaced by a stub (monkeypatch in the tests)
    served,                 \* requests accepted so far
    wk,                     \* per worker: the request it is handling
    stack                   \* the layer around the views that a
                            \* specification looks at: one of the two
                            \* middlewares, URL dispatch, the views' wrapper

healthvars == <<db_up, cache_up, cache_store, health_check_duration,
                health_check_status, patched, served, wk>>
vars == <<healthvars, stack>>

\* the fields of stack: MetricsMiddleware has the first two, the next five
\* are StructuredLoggingMiddleware's, then URL dispatch, _get_client_ip and
\* the views' wrapper with two each
active_requests == stack.active_requests  \* gauge: requests inside MetricsMiddleware
mm == stack.mm                    \* per thread: position in MetricsMiddleware.__call__
contextvars == stack.contextvars  \* per thread: structlog's ambient context
uuid_issued == stack.uuid_issued  \* identifiers uuid.uuid4() has handed out
lg == stack.lg                    \* per thread: position in StructuredLoggingMiddleware.__call__
last_line == stack.last_line      \* per thread: the log line emitted last
sent == stack.sent                \* responses that left StructuredLoggingMiddleware
path_info == stack.path_info      \* path of the request being dispatched
match == stack.match              \* what the URL resolver made of path_info
meta == stack.meta                \* request.META of the request whose client IP is asked
ip == stack.ip                    \* what _get_client_ip returned for meta
http == stack.http                \* per worker: the request at the views' wrapper
answered == stack.answered        \* the status codes the views' responses carried

(***************************************************************************)
(* Bounds                                                                  *)
(***************************************************************************)
MaxRequests == 2
MaxClock == 1

MaxHandled == 2
MaxHeaderLen == 3
MaxLogged == 3
MaxPathLen == 4

Workers == {"w1"}
ClockReadings == 0..MaxClock
\* the server's request threads, all running the one middleware chain
Threads == {"t1", "t2", "t3"}

(***************************************************************************)
(* Vocabulary of the program                                               *)
(***************************************************************************)
ProbeNames == {"database", "redis"}
Views == {"healthz", "ready"}
version == "0.1.0"

HTTP_200_OK == 200
HTTP_503_SERVICE_UNAVAILABLE == 503

NoValue == "None"           \* cache.get on a missing key
PingValue == "ping"
NoSample == -1              \* a labelled gauge child that was never set

\* str(e) of what a dependency call can raise; an exception built without
\* arguments has the empty string as its string form.
DependencyErrors == {"Connection refused", ""}
MismatchError == "Redis value mismatch"
\* str(e) of a failure of the metrics client or of the logger
InstrumentationError == "instrumentation failure"
NoExc == "<no exception>"

\* The instrumentation statements of a block run in the order observe, set,
\* log; FaultPoints names the one that raises, if any.
FaultPoints == {"none", "observe", "set", "log"}
Reached(f, step) ==
    CASE step = "observe" -> f \in {"none", "set", "log"}
      [] step = "set"     -> f \in {"none", "log"}
      [] step = "log"     -> f = "none"

Counters == {"call_database", "call_redis", "ret_database", "ret_redis",
             "select", "cache_set", "cache_get", "select_ok", "ping_ok",
             "observe_database", "observe_redis", "set_database", "set_redis"}

NoResponse == [code |-> 0]
NotPatched == [status |-> "<real>"]
EmptyChecks == [n \in {} |-> NotPatched]

IdleWorker ==
    [pc |-> "idle", view |-> "none", start_time |-> 0, exc |-> NoExc,
     fault |-> FALSE, raised_in |-> "none", checks |-> EmptyChecks,
     outcome |-> "none",
     response |-> NoResponse, cnt |-> [c \in Counters |-> 0]]

\* a thread outside MetricsMiddleware.__call__
IdleMetrics == [pc |-> "idle", outcome |-> "none", handled |-> 0]

\* structlog's context with nothing bound; a log line not yet written
EmptyContext == <<>>
NoLine == <<>>
NoRequest == [method |-> "", path |-> "", META |-> <<>>]

\* a thread outside StructuredLoggingMiddleware.__call__
IdleLogging ==
    [pc |-> "idle", request |-> NoRequest, request_id |-> 0, begun |-> 0,
     left |-> "none"]

Unresolved == "unresolved"

\* _get_client_ip has not been called
NotReturned == [returned |-> FALSE, value |-> <<>>]

\* no request has reached the views' wrapper
NoHttp == [stage |-> "none", credentials |-> "none", user |-> "AnonymousUser"]

\* the views called directly, nothing around them
NoStack == "none"

\* metrics.py 42: the gauge starts at 0; no request is in the middleware
MetricsIdle ==
    [active_requests |-> 0,
     mm |-> [t \in Threads |-> IdleMetrics]]

LoggingIdle ==
    [contextvars |-> [t \in Threads |-> EmptyContext],
     uuid_issued |-> 0,
     lg |-> [t \in Threads |-> IdleLogging],
     last_line |-> [t \in Threads |-> NoLine],
     sent |-> {}]

AuthIdle ==
    [http |-> [w \in Workers |-> NoHttp],
     answered |-> {}]

Init ==
    /\ db_up \in BOOLEAN
    /\ cache_up \in BOOLEAN
    /\ cache_store = NoValue
    /\ health_check_duration = [n \in ProbeNames |-> 0]
    /\ health_check_status = [n \in ProbeNames |-> NoSample]
    /\ patched = [n \in ProbeNames |-> NotPatched]
    /\ served = 0
    /\ wk = [w \in Workers |-> IdleWorker]
    /\ stack = NoStack

(***************************************************************************)
(* Helpers                                                                 *)
(***************************************************************************)
Bump(cnt, S) == [c \in Counters |-> cnt[c] + (IF c \in S THEN 1 ELSE 0)]

\* (time.time() - start_time) * 1000, in thousandths of a millisecond
elapsed_ms(t, start_time) == (t - start_time) * 10

\* round(latency_ms, 2): thousandths of a millisecond to the nearest
\* hundredth, a tie going to the even neighbour
round2(x) ==
    LET lo == x \div 10
        r == x % 10
    IN  IF r < 5 THEN lo
        ELSE IF r > 5 THEN lo + 1
        ELSE IF lo % 2 = 0 THEN lo ELSE lo + 1

\* health_check_duration.labels(check_name=name).observe(latency_ms / 1000)
\* in a block whose instrumentation fails at f
observe(name, f) ==
    IF Reached(f, "observe")
    THEN [health_check_duration EXCEPT ![name] = @ + 1]
    ELSE health_check_duration

\* health_check_status.labels(check_name=name).set(v)
gauge_set(name, v, f) ==
    IF Reached(f, "set")
    THEN [health_check_status EXCEPT ![name] = v]
    ELSE health_check_status

\* what the block's instrumentation adds to the request's counters
Recorded(name, f) ==
    (IF Reached(f, "observe") THEN {"observe_" \o name} ELSE {})
    \cup (IF Reached(f, "set") THEN {"set_" \o name} ELSE {})

(***************************************************************************)
(* ready_view, lines 78-81: the checks dict is built from the two probe    *)
(* calls, database first.                                                  *)
(***************************************************************************)
\* defective variant: the redis probe is skipped once the database probe is not healthy
ready_view_next_short_circuit(name, result) ==
    IF name = "database" /\ result.status = "healthy" THEN "redis_start"
    ELSE "aggregate"

\* where ready_view continues once probe `name` has returned `result`
ready_view_next(name, result) ==
    IF name = "database" THEN "redis_start" ELSE "aggregate"

\* defective variant: only healthy probes are reported
collect_healthy_only(checks, name, result) ==
    IF result.status = "healthy" THEN checks @@ (name :> result) ELSE checks

\* the entry the returned result becomes in checks
collect(checks, name, result) == checks @@ (name :> result)

\* a probe returns `result` to ready_view
Return(r, name, result) ==
    [r EXCEPT !.pc = ready_view_next(name, result),
              !.checks = collect(r.checks, name, result),
              !.exc = NoExc,
              !.start_time = 0,
              !.cnt = Bump(@, {"ret_" \o name})]

\* an exception leaves the handler: the request ends without a response
Escape(r, function) ==
    [r EXCEPT !.pc = "done", !.outcome = "exception", !.start_time = 0,
              !.raised_in = function]

(***************************************************************************)
(* The dependencies                                                        *)
(***************************************************************************)
DatabaseChange ==
    /\ db_up' = ~db_up
    /\ UNCHANGED <<stack, cache_up, cache_store, health_check_duration,
                   health_check_status, patched, served, wk>>

CacheChange ==
    /\ cache_up' = ~cache_up
    /\ UNCHANGED <<stack, db_up, cache_store, health_check_duration,
                   health_check_status, patched, served, wk>>

\* the probe key is written with timeout=10: it expires (or is evicted)
CacheExpire ==
    /\ cache_store # NoValue
    /\ cache_store' = NoValue
    /\ UNCHANGED <<stack, db_up, cache_up, health_check_duration,
                   health_check_status, patched, served, wk>>

(***************************************************************************)
(* A worker accepts a request for one of the two views                     *)
(***************************************************************************)
Request(w) ==
    /\ wk[w].pc \in {"idle", "done"}
    /\ served < MaxRequests
    /\ served' = served + 1
    /\ \E v \in Views :
         wk' = [wk EXCEPT ![w] =
                  [IdleWorker EXCEPT !.view = v,
                                     !.pc = IF v = "healthz" THEN "healthz"
                                            ELSE "database_start"]]
    /\ UNCHANGED <<stack, db_up, cache_up, cache_store, health_check_duration,
                   health_check_status, patched>>

(***************************************************************************)
(* healthz_view (views.py 22-46)                                           *)
(***************************************************************************)
\* defective variant: liveness answers for the database
healthz_view_checks_database(w) ==
    /\ wk[w].pc = "healthz"
    /\ wk' = [wk EXCEPT ![w] =
                [@ EXCEPT !.pc = "done",
                          !.outcome = "response",
                          !.response =
                              [code |-> IF db_up THEN HTTP_200_OK
                                        ELSE HTTP_503_SERVICE_UNAVAILABLE,
                               status |-> IF db_up THEN "healthy" ELSE "unhealthy",
                               version |-> version]]]
    /\ UNCHANGED <<stack, db_up, cache_up, cache_store, health_check_duration,
                   health_check_status, patched, served>>

\* defective variant: liveness runs the database probe and drops its result
healthz_view_probing(w) ==
    /\ wk[w].pc = "healthz"
    /\ health_check_duration' = [health_check_duration EXCEPT !["database"] = @ + 1]
    /\ health_check_status' =
           [health_check_status EXCEPT !["database"] = IF db_up THEN 1 ELSE 0]
    /\ wk' = [wk EXCEPT ![w] =
                [@ EXCEPT !.pc = "done",
                          !.outcome = "response",
                          !.cnt = Bump(@, {"call_database", "select",
                                           "ret_database"}),
                          !.response = [code |-> HTTP_200_OK,
                                        status |-> "healthy",
                                        version |-> version]]]
    /\ UNCHANGED <<stack, db_up, cache_up, cache_store, patched, served>>

healthz_view(w) ==
    /\ wk[w].pc = "healthz"
    /\ \E f \in {"none", "log"} :
         wk' = [wk EXCEPT ![w] =
                  IF f = "none"
                  THEN [@ EXCEPT !.pc = "done",
                                 !.outcome = "response",
                                 !.response = [code |-> HTTP_200_OK,
                                               status |-> "healthy",
                                               version |-> version]]
                  ELSE Escape([@ EXCEPT !.fault = TRUE,
                                        !.exc = InstrumentationError],
                              "healthz_view")]
    /\ UNCHANGED <<stack, db_up, cache_up, cache_store, health_check_duration,
                   health_check_status, patched, served>>

(***************************************************************************)
(* database_health_check (checks.py 19-68)                                 *)
(***************************************************************************)
\* line 26: the call is entered and start_time is read
database_start(w) ==
    /\ wk[w].pc = "database_start"
    /\ patched["database"] = NotPatched
    /\ \E t \in ClockReadings :
         wk' = [wk EXCEPT ![w] =
                  [@ EXCEPT !.pc = "database_query",
                            !.start_time = t,
                            !.cnt = Bump(@, {"call_database"})]]
    /\ UNCHANGED <<stack, db_up, cache_up, cache_store, health_check_duration,
                   health_check_status, patched, served>>

\* defective variant: a failed round-trip is tried once more
database_query_retry(w) ==
    /\ wk[w].pc = "database_query"
    /\ \/ /\ db_up
          /\ wk' = [wk EXCEPT ![w] =
                      [@ EXCEPT !.pc = "database_success",
                                !.cnt = Bump(@, {"select", "select_ok"})]]
       \/ /\ ~db_up
          /\ \E e \in DependencyErrors :
               wk' = [wk EXCEPT ![w] =
                        [@ EXCEPT !.pc = IF wk[w].cnt["select"] = 0
                                         THEN "database_query"
                                         ELSE "database_except",
                                  !.exc = e,
                                  !.cnt = Bump(@, {"select"})]]
    /\ UNCHANGED <<stack, db_up, cache_up, cache_store, health_check_duration,
                   health_check_status, patched, served>>

\* lines 30-32: one round-trip; it succeeds or raises
database_query(w) ==
    /\ wk[w].pc = "database_query"
    /\ \/ /\ db_up
          /\ wk' = [wk EXCEPT ![w] =
                      [@ EXCEPT !.pc = "database_success",
                                !.cnt = Bump(@, {"select", "select_ok"})]]
       \/ /\ ~db_up
          /\ \E e \in DependencyErrors :
               wk' = [wk EXCEPT ![w] =
                        [@ EXCEPT !.pc = "database_except",
                                  !.exc = e,
                                  !.cnt = Bump(@, {"select"})]]
    /\ UNCHANGED <<stack, db_up, cache_up, cache_store, health_check_duration,
                   health_check_status, patched, served>>

\* lines 34-49: the rest of the try block
database_success(w) ==
    /\ wk[w].pc = "database_success"
    /\ \E t \in ClockReadings, f \in FaultPoints :
         LET latency_ms == elapsed_ms(t, wk[w].start_time)
             result == [status |-> "healthy",
                        latency_ms |-> round2(latency_ms),
                        message |-> "MySQL connection successful"]
         IN  /\ health_check_duration' = observe("database", f)
             /\ health_check_status' = gauge_set("database", 1, f)
             /\ wk' = [wk EXCEPT ![w] =
                         IF f = "none"
                         THEN Return([@ EXCEPT !.cnt = Bump(@, Recorded("database", f))],
                                     "database", result)
                         ELSE [@ EXCEPT !.pc = "database_except",
                                        !.exc = InstrumentationError,
                                        !.fault = TRUE,
                                        !.cnt = Bump(@, Recorded("database", f))]]
    /\ UNCHANGED <<stack, db_up, cache_up, cache_store, patched, served>>

\* defective variant: the message is the bare str(e)
database_except_bare_message(w) ==
    /\ wk[w].pc = "database_except"
    /\ \E t \in ClockReadings, f \in FaultPoints :
         LET latency_ms == elapsed_ms(t, wk[w].start_time)
             result == [status |-> "unhealthy",
                        latency_ms |-> round2(latency_ms),
                        message |-> wk[w].exc]
         IN  /\ health_check_duration' = observe("database", f)
             /\ health_check_status' = gauge_set("database", 0, f)
             /\ wk' = [wk EXCEPT ![w] =
                         IF f = "none"
                         THEN Return([@ EXCEPT !.cnt = Bump(@, Recorded("database", f))],
                                     "database", result)
                         ELSE Escape([@ EXCEPT !.fault = TRUE,
                                               !.exc = InstrumentationError,
                                               !.cnt = Bump(@, Recorded("database", f))],
                                     "database_health_check")]
    /\ UNCHANGED <<stack, db_up, cache_up, cache_store, patched, served>>

\* defective variant: the except block leaves the status gauge as it is
database_except_keeps_gauge(w) ==
    /\ wk[w].pc = "database_except"
    /\ \E t \in ClockReadings, f \in FaultPoints :
         LET latency_ms == elapsed_ms(t, wk[w].start_time)
             result == [status |-> "unhealthy",
                        latency_ms |-> round2(latency_ms),
                        message |-> "Database connection failed: " \o wk[w].exc]
         IN  /\ health_check_duration' = observe("database", f)
             /\ health_check_status' = health_check_status
             /\ wk' = [wk EXCEPT ![w] =
                         IF f = "none"
                         THEN Return([@ EXCEPT !.cnt = Bump(@, Recorded("database", f))],
                                     "database", result)
                         ELSE Escape([@ EXCEPT !.fault = TRUE,
                                               !.exc = InstrumentationError,
                                               !.cnt = Bump(@, Recorded("database", f))],
                                     "database_health_check")]
    /\ UNCHANGED <<stack, db_up, cache_up, cache_store, patched, served>>

\* lines 51-68: the except block
database_except(w) ==
    /\ wk[w].pc = "database_except"
    /\ \E t \in ClockReadings, f \in FaultPoints :
         LET latency_ms == elapsed_ms(t, wk[w].start_time)
             result == [status |-> "unhealthy",
                        latency_ms |-> round2(latency_ms),
                        message |-> "Database connection failed: " \o wk[w].exc]
         IN  /\ health_check_duration' = observe("database", f)
             /\ health_check_status' = gauge_set("database", 0, f)
             /\ wk' = [wk EXCEPT ![w] =
                         IF f = "none"
                         THEN Return([@ EXCEPT !.cnt = Bump(@, Recorded("database", f))],
                                     "database", result)
                         ELSE Escape([@ EXCEPT !.fault = TRUE,
                                               !.exc = InstrumentationError,
                                               !.cnt = Bump(@, Recorded("database", f))],
                                     "database_health_check")]
    /\ UNCHANGED <<stack, db_up, cache_up, cache_store, patched, served>>

(***************************************************************************)
(* redis_health_check (checks.py 71-122)                                   *)
(***************************************************************************)
\* line 78
redis_start(w) ==
    /\ wk[w].pc = "redis_start"
    /\ patched["redis"] = NotPatched
    /\ \E t \in ClockReadings :
         wk' = [wk EXCEPT ![w] =
                  [@ EXCEPT !.pc = "redis_set",
                            !.start_time = t,
                            !.cnt = Bump(@, {"call_redis"})]]
    /\ UNCHANGED <<stack, db_up, cache_up, cache_store, health_check_duration,
                   health_check_status, patched, served>>

\* line 82: cache.set('health_check', 'ping', timeout=10)
redis_set(w) ==
    /\ wk[w].pc = "redis_set"
    /\ \/ /\ cache_up
          /\ cache_store' = PingValue
          /\ wk' = [wk EXCEPT ![w] =
                      [@ EXCEPT !.pc = "redis_get",
                                !.cnt = Bump(@, {"cache_set"})]]
       \/ /\ ~cache_up
          /\ cache_store' = cache_store
          /\ \E e \in DependencyErrors :
               wk' = [wk EXCEPT ![w] =
                        [@ EXCEPT !.pc = "redis_except",
                                  !.exc = e,
                                  !.cnt = Bump(@, {"cache_set"})]]
    /\ UNCHANGED <<stack, db_up, cache_up, health_check_duration,
                   health_check_status, patched, served>>

\* lines 83-86: result = cache.get('health_check'), then the equality test
redis_get(w) ==
    /\ wk[w].pc = "redis_get"
    /\ \/ /\ cache_up
          /\ LET result == cache_store
             IN  wk' = [wk EXCEPT ![w] =
                          IF result # PingValue
                          THEN [@ EXCEPT !.pc = "redis_except",
                                         !.exc = MismatchError,
                                         !.cnt = Bump(@, {"cache_get"})]
                          ELSE [@ EXCEPT !.pc = "redis_success",
                                         !.cnt = Bump(@, {"cache_get", "ping_ok"})]]
       \/ /\ ~cache_up
          /\ \E e \in DependencyErrors :
               wk' = [wk EXCEPT ![w] =
                        [@ EXCEPT !.pc = "redis_except",
                                  !.exc = e,
                                  !.cnt = Bump(@, {"cache_get"})]]
    /\ UNCHANGED <<stack, db_up, cache_up, cache_store, health_check_duration,
                   health_check_status, patched, served>>

\* lines 88-103: the rest of the try block
redis_success(w) ==
    /\ wk[w].pc = "redis_success"
    /\ \E t \in ClockReadings, f \in FaultPoints :
         LET latency_ms == elapsed_ms(t, wk[w].start_time)
             result == [status |-> "healthy",
                        latency_ms |-> round2(latency_ms),
                        message |-> "Redis connection successful"]
         IN  /\ health_check_duration' = observe("redis", f)
             /\ health_check_status' = gauge_set("redis", 1, f)
             /\ wk' = [wk EXCEPT ![w] =
                         IF f = "none"
                         THEN Return([@ EXCEPT !.cnt = Bump(@, Recorded("redis", f))],
                                     "redis", result)
                         ELSE [@ EXCEPT !.pc = "redis_except",
                                        !.exc = InstrumentationError,
                                        !.fault = TRUE,
                                        !.cnt = Bump(@, Recorded("redis", f))]]
    /\ UNCHANGED <<stack, db_up, cache_up, cache_store, patched, served>>

\* defective variant: the except block copied from the database probe keeps its label
redis_except_database_label(w) ==
    /\ wk[w].pc = "redis_except"
    /\ \E t \in ClockReadings, f \in FaultPoints :
         LET latency_ms == elapsed_ms(t, wk[w].start_time)
             result == [status |-> "unhealthy",
                        latency_ms |-> round2(latency_ms),
                        message |-> "Redis connection failed: " \o wk[w].exc]
         IN  /\ health_check_duration' = observe("database", f)
             /\ health_check_status' = gauge_set("database", 0, f)
             /\ wk' = [wk EXCEPT ![w] =
                         IF f = "none"
                         THEN Return([@ EXCEPT !.cnt = Bump(@, Recorded("database", f))],
                                     "redis", result)
                         ELSE Escape([@ EXCEPT !.fault = TRUE,
                                               !.exc = InstrumentationError,
                                               !.cnt = Bump(@, Recorded("database", f))],
                                     "redis_health_check")]
    /\ UNCHANGED <<stack, db_up, cache_up, cache_store, patched, served>>

\* lines 105-122: the except block
redis_except(w) ==
    /\ wk[w].pc = "redis_except"
    /\ \E t \in ClockReadings, f \in FaultPoints :
         LET latency_ms == elapsed_ms(t, wk[w].start_time)
             result == [status |-> "unhealthy",
                        latency_ms |-> round2(latency_ms),
                        message |-> "Redis connection failed: " \o wk[w].exc]
         IN  /\ health_check_duration' = observe("redis", f)
             /\ health_check_status' = gauge_set("redis", 0, f)
             /\ wk' = [wk EXCEPT ![w] =
                         IF f = "none"
                         THEN Return([@ EXCEPT !.cnt = Bump(@, Recorded("redis", f))],
                                     "redis", result)
                         ELSE Escape([@ EXCEPT !.fault = TRUE,
                                               !.exc = InstrumentationError,
                                               !.cnt = Bump(@, Recorded("redis", f))],
                                     "redis_health_check")]
    /\ UNCHANGED <<stack, db_up, cache_up, cache_store, patched, served>>

(***************************************************************************)
(* ready_view (views.py 49-106), after the probes have returned            *)
(***************************************************************************)
\* defective variant: a degraded probe is tolerated
all_healthy_tolerant(checks) ==
    \A n \in DOMAIN checks : checks[n].status \in {"healthy", "degraded"}

\* lines 84-87
all_healthy(checks) ==
    \A n \in DOMAIN checks : checks[n].status = "healthy"

\* line 89
overall_status(ok) == IF ok THEN "ready" ELSE "not_ready"

\* line 90
http_status(ok) == IF ok THEN HTTP_200_OK ELSE HTTP_503_SERVICE_UNAVAILABLE

\* lines 84-106
ready_view_respond(w) ==
    /\ wk[w].pc = "aggregate"
    /\ \E f \in {"none", "log"} :
         LET ok == all_healthy(wk[w].checks)
         IN  wk' = [wk EXCEPT ![w] =
                      IF f = "none"
                      THEN [@ EXCEPT !.pc = "done",
                                     !.outcome = "response",
                                     !.response = [code |-> http_status(ok),
                                                   status |-> overall_status(ok),
                                                   version |-> version,
                                                   checks |-> wk[w].checks]]
                      ELSE Escape([@ EXCEPT !.fault = TRUE,
                                            !.exc = InstrumentationError],
                                  "ready_view")]
    /\ UNCHANGED <<stack, db_up, cache_up, cache_store, health_check_duration,
                   health_check_status, patched, served>>

(***************************************************************************)
(* The specification                                                       *)
(***************************************************************************)
Next ==
    \/ DatabaseChange
    \/ CacheChange
    \/ CacheExpire
    \/ \E w \in Workers : Request(w)
    \/ \E w \in Workers : healthz_view(w)
    \/ \E w \in Workers : database_start(w)
    \/ \E w \in Workers : database_query(w)
    \/ \E w \in Workers : database_success(w)
    \/ \E w \in Workers : database_except(w)
    \/ \E w \in Workers : redis_start(w)
    \/ \E w \in Workers : redis_set(w)
    \/ \E w \in Workers : redis_get(w)
    \/ \E w \in Workers : redis_success(w)
    \/ \E w \in Workers : redis_except(w)
    \/ \E w \in Workers : ready_view_respond(w)

Spec == Init /\ [][Next]_vars

(***************************************************************************)
(* The readiness view over stubbed probes.  The tests replace the name     *)
(* ready_view calls (monkeypatch.setattr('core.health.views.               *)
(* database_health_check', mock_db_check)) by a function returning a fixed *)
(* result; SpecStub draws such a result for both probes, from every status *)
(* of the response schema.                                                 *)
(***************************************************************************)
StubStatuses == {"healthy", "unhealthy", "degraded"}
StubLatencies == {0, 500000}
StubResults ==
    [status : StubStatuses, latency_ms : StubLatencies,
     message : {"Database connection failed: Connection refused"}]

InitStub ==
    /\ db_up \in BOOLEAN
    /\ cache_up \in BOOLEAN
    /\ cache_store = NoValue
    /\ health_check_duration = [n \in ProbeNames |-> 0]
    /\ health_check_status = [n \in ProbeNames |-> NoSample]
    /\ patched \in [ProbeNames -> StubResults]
    /\ served = 0
    /\ wk = [w \in Workers |-> IdleWorker]
    /\ stack = NoStack

\* views.py 79 / 80 with the name patched: the stub returns its result
stub_probe(w, name) ==
    /\ wk[w].pc = name \o "_start"
    /\ patched[name] # NotPatched
    /\ wk' = [wk EXCEPT ![w] =
                Return([@ EXCEPT !.cnt = Bump(@, {"call_" \o name})],
                       name, patched[name])]
    /\ UNCHANGED <<stack, db_up, cache_up, cache_store, health_check_duration,
                   health_check_status, patched, served>>

NextStub ==
    \/ \E w \in Workers : Request(w)
    \/ \E w \in Workers : healthz_view(w)
    \/ \E w \in Workers : stub_probe(w, "database")
    \/ \E w \in Workers : stub_probe(w, "redis")
    \/ \E w \in Workers : ready_view_respond(w)

SpecStub == InitStub /\ [][NextStub]_vars

(***************************************************************************)
(* MetricsMiddleware.__call__ (metrics.py 66-84), one request per thread,  *)
(* any number of threads inside it at once.  Gauge.inc and Gauge.dec of    *)
(* prometheus_client update the value under the gauge's lock, so each is   *)
(* one step.                                                               *)
(***************************************************************************)
\* the health subsystem at rest
HealthIdle ==
    /\ db_up = TRUE
    /\ cache_up = TRUE
    /\ cache_store = NoValue
    /\ health_check_duration = [n \in ProbeNames |-> 0]
    /\ health_check_status = [n \in ProbeNames |-> NoSample]
    /\ patched = [n \in ProbeNames |-> NotPatched]
    /\ served = 0
    /\ wk = [w \in Workers |-> IdleWorker]

InitMetrics ==
    /\ HealthIdle
    /\ stack = MetricsIdle

\* line 77: a request enters; active_requests.inc()
metrics_inc(t) ==
    /\ mm[t].pc = "idle"
    /\ mm[t].handled < MaxHandled
    /\ stack' = [stack EXCEPT
                   !.active_requests = @ + 1,
                   !.mm[t] = [pc |-> "get_response", outcome |-> "none",
                              handled |-> @.handled + 1]]
    /\ UNCHANGED healthvars

\* lines 80-81: the downstream handler returns a response or raises
metrics_get_response(t) ==
    /\ mm[t].pc = "get_response"
    /\ \E o \in {"response", "exception"} :
         stack' = [stack EXCEPT !.mm[t].pc = "finally", !.mm[t].outcome = o]
    /\ UNCHANGED healthvars

\* defective variant: the decrement follows the return statement only
metrics_finally_on_return_only(t) ==
    /\ mm[t].pc = "finally"
    /\ stack' = [stack EXCEPT
                   !.active_requests = IF mm[t].outcome = "response"
                                       THEN @ - 1 ELSE @,
                   !.mm[t].pc = "idle"]
    /\ UNCHANGED healthvars

\* lines 82-84: finally: active_requests.dec(); the request leaves, with
\* its response or with the handler's exception
metrics_finally(t) ==
    /\ mm[t].pc = "finally"
    /\ stack' = [stack EXCEPT !.active_requests = @ - 1,
                              !.mm[t].pc = "idle"]
    /\ UNCHANGED healthvars

NextMetrics ==
    \/ \E t \in Threads : metrics_inc(t)
    \/ \E t \in Threads : metrics_get_response(t)
    \/ \E t \in Threads : metrics_finally(t)

SpecMetrics == InitMetrics /\ [][NextMetrics]_vars

(***************************************************************************)
(* StructuredLoggingMiddleware._get_client_ip (logging.py 71-88).  A       *)
(* string is the sequence of its characters; request.META is a function    *)
(* whose domain holds the keys that are present.                           *)
(***************************************************************************)
Chars == {",", " ", "a", "b"}
UpTo(n) == UNION {[1..k -> Chars] : k \in 0..n}
HeaderValues == UpTo(MaxHeaderLen)
PeerAddrs == {<<>>, <<"c">>}
XFF == "HTTP_X_FORWARDED_FOR"
PEER == "REMOTE_ADDR"

Metas ==
    {m \in UNION {[D -> HeaderValues \cup PeerAddrs] : D \in SUBSET {XFF, PEER}} :
        /\ XFF \in DOMAIN m => m[XFF] \in HeaderValues
        /\ PEER \in DOMAIN m => m[PEER] \in PeerAddrs}

\* str.split(sep): the pieces between the separators, at least one piece
RECURSIVE split(_, _)
split(str, sep) ==
    LET at == {i \in 1..Len(str) : str[i] = sep}
    IN  IF at = {} THEN <<str>>
        ELSE LET i == CHOOSE k \in at : \A j \in at : k <= j
             IN  <<SubSeq(str, 1, i - 1)>> \o split(SubSeq(str, i + 1, Len(str)), sep)

RECURSIVE lstrip(_)
lstrip(str) ==
    IF str # <<>> /\ Head(str) = " " THEN lstrip(Tail(str)) ELSE str

RECURSIVE rstrip(_)
rstrip(str) ==
    IF str # <<>> /\ str[Len(str)] = " "
    THEN rstrip(SubSeq(str, 1, Len(str) - 1))
    ELSE str

\* str.strip()
strip(str) == rstrip(lstrip(str))

\* request.META.get(key, default)
META_get(m, key, default) == IF key \in DOMAIN m THEN m[key] ELSE default

\* `if x_forwarded_for:` -- None and the empty string are both false
truthy(m, key) == key \in DOMAIN m /\ m[key] # <<>>

\* defective variant: the first entry is returned as it stands
get_client_ip_unstripped(m) ==
    IF truthy(m, XFF)
    THEN split(m[XFF], ",")[1]
    ELSE META_get(m, PEER, <<>>)

\* lines 83-88
get_client_ip(m) ==
    IF truthy(m, XFF)
    THEN strip(split(m[XFF], ",")[1])
    ELSE META_get(m, PEER, <<>>)

InitClientIp ==
    /\ HealthIdle
    /\ stack \in {[meta |-> m, ip |-> NotReturned] : m \in Metas}

call_get_client_ip ==
    /\ ~ip.returned
    /\ stack' = [stack EXCEPT
                   !.ip = [returned |-> TRUE, value |-> get_client_ip(meta)]]
    /\ UNCHANGED healthvars

NextClientIp == call_get_client_ip

SpecClientIp == InitClientIp /\ [][NextClientIp]_vars

(***************************************************************************)
(* StructuredLoggingMiddleware.__call__ (logging.py 27-69).  Every thread  *)
(* has its own ambient context (structlog.contextvars); a line written     *)
(* through a structlog logger carries the context of its thread at that    *)
(* moment.  uuid.uuid4() hands out an identifier it never handed out       *)
(* before; identifiers are numbered in the order of their generation.      *)
(***************************************************************************)
\* two requests that differ in everything the middleware binds
Requests ==
    {[method |-> "GET", path |-> "/healthz/healthz/",
      META |-> [REMOTE_ADDR |-> <<"c">>]],
     [method |-> "HEAD", path |-> "/ready/ready/",
      META |-> [HTTP_X_FORWARDED_FOR |-> <<"a">>, REMOTE_ADDR |-> <<"c">>]]}

\* the line the view writes: views.py 44 (healthz_view), 99 (ready_view)
view_event(r) ==
    IF r.path = "/healthz/healthz/" THEN "healthz_check"
    ELSE "readiness_check_completed"

ContextKeys == {"request_id", "method", "path", "ip_address"}

\* structlog.contextvars.clear_contextvars()
clear_contextvars(ctx) == EmptyContext

\* structlog.contextvars.bind_contextvars(**kw): kw laid over what is bound
bind_contextvars(ctx, kw) ==
    [k \in DOMAIN ctx \cup DOMAIN kw |-> IF k \in DOMAIN kw THEN kw[k] ELSE ctx[k]]

\* logger.info(event, ...) on a thread whose ambient context is ctx, while
\* it handles request r under the identifier id
line(event, ctx, r, id) ==
    [event |-> event, context |-> ctx, request |-> r, request_id |-> id]

InitLogging ==
    /\ HealthIdle
    /\ stack = LoggingIdle

\* defective variant: request_started is written before the context of the
\* previous request is replaced
logging_begin_late_bind(t) ==
    /\ lg[t].pc = "idle"
    /\ uuid_issued < MaxLogged
    /\ \E r \in Requests, raises \in BOOLEAN :
         LET request_id == uuid_issued + 1
             bound == bind_contextvars(clear_contextvars(contextvars[t]),
                         [request_id |-> request_id,
                          method |-> r.method,
                          path |-> r.path,
                          ip_address |-> get_client_ip(r.META)])
         IN  stack' = [stack EXCEPT
               !.uuid_issued = request_id,
               !.contextvars[t] = bound,
               !.last_line[t] =
                   IF raises THEN @
                   ELSE line("request_started", contextvars[t], r, request_id),
               !.lg[t] =
                   [pc |-> IF raises THEN "idle" ELSE "get_response",
                    request |-> r, request_id |-> request_id,
                    begun |-> @.begun + 1,
                    left |-> IF raises THEN "exception" ELSE "none"]]
    /\ UNCHANGED healthvars

\* lines 39-55: generate the identifier, clear and bind the context, write
\* request_started (the logger call can raise, and then the call is over)
logging_begin(t) ==
    /\ lg[t].pc = "idle"
    /\ uuid_issued < MaxLogged
    /\ \E r \in Requests, raises \in BOOLEAN :
         LET request_id == uuid_issued + 1
             bound == bind_contextvars(clear_contextvars(contextvars[t]),
                         [request_id |-> request_id,
                          method |-> r.method,
                          path |-> r.path,
                          ip_address |-> get_client_ip(r.META)])
         IN  stack' = [stack EXCEPT
               !.uuid_issued = request_id,
               !.contextvars[t] = bound,
               !.last_line[t] =
                   IF raises THEN @
                   ELSE line("request_started", bound, r, request_id),
               !.lg[t] =
                   [pc |-> IF raises THEN "idle" ELSE "get_response",
                    request |-> r, request_id |-> request_id,
                    begun |-> @.begun + 1,
                    left |-> IF raises THEN "exception" ELSE "none"]]
    /\ UNCHANGED healthvars

\* line 58: the view and the probes write their lines (views.py 44, 99;
\* checks.py 40, 58, 94, 112), then the response comes back or an exception
\* passes through
logging_get_response(t) ==
    /\ lg[t].pc = "get_response"
    /\ \E raises \in BOOLEAN :
         stack' = [stack EXCEPT
           !.last_line[t] = line(view_event(lg[t].request), contextvars[t],
                                 lg[t].request, lg[t].request_id),
           !.lg[t] = IF raises
                     THEN [@ EXCEPT !.pc = "idle", !.left = "exception"]
                     ELSE [@ EXCEPT !.pc = "completed"]]
    /\ UNCHANGED healthvars

\* defective variant: the header is filled from the identifier generated
\* last, by whichever thread
logging_complete_latest_id(t) ==
    /\ lg[t].pc = "completed"
    /\ \E raises \in BOOLEAN :
         stack' = [stack EXCEPT
           !.last_line[t] =
               IF raises THEN @
               ELSE line("request_completed", contextvars[t],
                         lg[t].request, lg[t].request_id),
           !.sent = IF raises THEN @
                    ELSE @ \cup {[generated |-> lg[t].request_id,
                                  header |-> uuid_issued]},
           !.lg[t].pc = "idle",
           !.lg[t].left = IF raises THEN "exception" ELSE "response"]
    /\ UNCHANGED healthvars

\* lines 61-69: write request_completed, set X-Request-ID, return
logging_complete(t) ==
    /\ lg[t].pc = "completed"
    /\ \E raises \in BOOLEAN :
         stack' = [stack EXCEPT
           !.last_line[t] =
               IF raises THEN @
               ELSE line("request_completed", contextvars[t],
                         lg[t].request, lg[t].request_id),
           !.sent = IF raises THEN @
                    ELSE @ \cup {[generated |-> lg[t].request_id,
                                  header |-> lg[t].request_id]},
           !.lg[t].pc = "idle",
           !.lg[t].left = IF raises THEN "exception" ELSE "response"]
    /\ UNCHANGED healthvars

NextLogging ==
    \/ \E t \in Threads : logging_begin(t)
    \/ \E t \in Threads : logging_get_response(t)
    \/ \E t \in Threads : logging_complete(t)

SpecLogging == InitLogging /\ [][NextLogging]_vars

(***************************************************************************)
(* URL dispatch: pulsewatch/urls.py 10-20 with the configuration it        *)
(* includes, core/health/urls.py 11-14.  A path is the sequence of its     *)
(* segments and slashes after the leading slash: /healthz/ready/ is        *)
(* <<"healthz", "/", "ready", "/">>.                                       *)
(***************************************************************************)
Tokens == {"/", "healthz", "ready", "admin", "metrics"}
Paths == UNION {[1..k -> Tokens] : k \in 0..MaxPathLen}

Resolver404 == "Resolver404"

\* path(route, view)
endpoint(route, view) ==
    [route |-> route, kind |-> "view", view |-> view, patterns |-> <<>>]
\* path(route, include(patterns))
include(route, patterns) ==
    [route |-> route, kind |-> "include", view |-> "", patterns |-> patterns]

\* core/health/urls.py 11-14
health_urlpatterns ==
    << endpoint(<<"healthz", "/">>, "healthz_view"),
       endpoint(<<"ready", "/">>, "ready_view") >>

\* django_prometheus.urls serves its export at "metrics"
prometheus_urlpatterns == << endpoint(<<"metrics">>, "ExportToDjangoView") >>

\* pulsewatch/urls.py 10-20; admin.site.urls answers everything below admin/
urlpatterns ==
    << [route |-> <<"admin", "/">>, kind |-> "site", view |-> "admin.site",
        patterns |-> <<>>],
       include(<<>>, prometheus_urlpatterns),
       include(<<"healthz", "/">>, health_urlpatterns),
       include(<<"ready", "/">>, health_urlpatterns) >>

IsPrefix(p, str) == Len(p) <= Len(str) /\ SubSeq(str, 1, Len(p)) = p

\* Django's resolver: the patterns are tried in order; a route matches a
\* prefix of the path; a view needs the whole rest matched, an include
\* hands the rest to its own patterns and, when none of them matches, the
\* search goes on with the next pattern
RECURSIVE resolve(_, _)
resolve(patterns, str) ==
    IF Len(patterns) = 0 THEN Resolver404
    ELSE LET p == Head(patterns)
             rest == SubSeq(str, Len(p.route) + 1, Len(str))
             here == IF ~IsPrefix(p.route, str) THEN Resolver404
                     ELSE IF p.kind = "site" THEN p.view
                     ELSE IF p.kind = "view"
                          THEN (IF Len(rest) = 0 THEN p.view ELSE Resolver404)
                     ELSE resolve(p.patterns, rest)
         IN  IF here # Resolver404 THEN here
             ELSE resolve(Tail(patterns), str)

\* the handler a GET for the path ends at; with APPEND_SLASH (a setting,
\* on or off) a path without final slash that matches nothing is
\* redirected to the path with the slash when that one matches
dispatch(str, append_slash) ==
    LET found == resolve(urlpatterns, str)
        slashed == resolve(urlpatterns, Append(str, "/"))
    IN  IF found # Resolver404 THEN found
        ELSE IF /\ append_slash
                /\ (Len(str) = 0 \/ str[Len(str)] # "/")
                /\ slashed # Resolver404
             THEN slashed
        ELSE Resolver404

InitDispatch ==
    /\ HealthIdle
    /\ stack \in {[path_info |-> str, match |-> Unresolved] : str \in Paths}

get_response_dispatch ==
    /\ match = Unresolved
    /\ \E append_slash \in BOOLEAN :
         stack' = [stack EXCEPT !.match = dispatch(path_info, append_slash)]
    /\ UNCHANGED healthvars

NextDispatch == get_response_dispatch

SpecDispatch == InitDispatch /\ [][NextDispatch]_vars

(***************************************************************************)
(* The views behind rest_framework's api_view wrapper (views.py 22-24,     *)
(* 49-51): the wrapper authenticates the request, asks the view's          *)
(* permission classes, calls the view and hands back its response.  The    *)
(* probes are stubbed, so the dependency state is the same for every       *)
(* request of a behaviour.                                                 *)
(***************************************************************************)
Credentials == {"none", "valid"}

\* request.user as the authentication step leaves it
authenticate(c) == IF c = "valid" THEN "user" ELSE "AnonymousUser"

\* defective variant: the views ask for a logged-in user
permission_classes_is_authenticated(view) == "IsAuthenticated"

\* @permission_classes([AllowAny]) on both views
permission_classes(view) == "AllowAny"

has_permission(class, user) ==
    \/ class = "AllowAny"
    \/ class = "IsAuthenticated" /\ user # "AnonymousUser"

\* a request arrives at the wrapper of one of the views
api_request(w) ==
    /\ wk[w].pc \in {"idle", "done"}
    /\ http[w].stage \in {"none", "returned"}
    /\ served < MaxRequests
    /\ served' = served + 1
    /\ \E v \in Views, c \in Credentials :
         /\ wk' = [wk EXCEPT ![w] = [IdleWorker EXCEPT !.view = v, !.pc = "initial"]]
         /\ stack' = [stack EXCEPT
                        !.http[w] = [stage |-> "initial", credentials |-> c,
                                     user |-> authenticate(c)]]
    /\ UNCHANGED <<db_up, cache_up, cache_store, health_check_duration,
                   health_check_status, patched>>

\* the wrapper's permission check: the view runs, or the request is
\* refused with 401 (not authenticated) or 403
check_permissions(w) ==
    /\ wk[w].pc = "initial"
    /\ \E denied \in {401, 403} :
         wk' = [wk EXCEPT ![w] =
                  IF has_permission(permission_classes(wk[w].view), http[w].user)
                  THEN [@ EXCEPT !.pc = IF wk[w].view = "healthz" THEN "healthz"
                                        ELSE "database_start"]
                  ELSE [@ EXCEPT !.pc = "done", !.outcome = "denied",
                                 !.response = [code |-> denied]]]
    /\ stack' = [stack EXCEPT !.http[w].stage = "view"]
    /\ UNCHANGED <<db_up, cache_up, cache_store, health_check_duration,
                   health_check_status, patched, served>>

\* the wrapper hands the response back; an exception of the view passes
\* through without one
api_view_return(w) ==
    /\ wk[w].pc = "done"
    /\ http[w].stage = "view"
    /\ stack' = [stack EXCEPT
                   !.http[w].stage = "returned",
                   !.answered =
                       IF wk[w].outcome = "exception" THEN @
                       ELSE @ \cup {[view |-> wk[w].view,
                                     credentials |-> http[w].credentials,
                                     code |-> wk[w].response.code]}]
    /\ UNCHANGED healthvars

NextAuth ==
    \/ \E w \in Workers : api_request(w)
    \/ \E w \in Workers : check_permissions(w)
    \/ \E w \in Workers : healthz_view(w)
    \/ \E w \in Workers : stub_probe(w, "database")
    \/ \E w \in Workers : stub_probe(w, "redis")
    \/ \E w \in Workers : ready_view_respond(w)
    \/ \E w \in Workers : api_view_return(w)

\* the probes stubbed as in InitStub, the wrapper idle
InitAuth ==
    /\ db_up \in BOOLEAN
    /\ cache_up \in BOOLEAN
    /\ cache_store = NoValue
    /\ health_check_duration = [n \in ProbeNames |-> 0]
    /\ health_check_status = [n \in ProbeNames |-> NoSample]
    /\ patched \in [ProbeNames -> StubResults]
    /\ served = 0
    /\ wk = [w \in Workers |-> IdleWorker]
    /\ stack = AuthIdle

SpecAuth == InitAuth /\ [][NextAuth]_vars

(***************************************************************************)
(* Concurrent readiness evaluations against one cache.  Several workers    *)
(* run ready_view at once and their cache.set and cache.get steps (checks  *)
(* .py 82, 83) interleave freely on the one key 'health_check'.  The cache *)
(* stays up and keeps the value written last; the database probe is        *)
(* stubbed as in the tests.                                                *)
(***************************************************************************)
Pingers == {"w1", "w2"}

InitPing ==
    /\ db_up = TRUE
    /\ cache_up = TRUE
    /\ cache_store = NoValue
    /\ health_check_duration = [n \in ProbeNames |-> 0]
    /\ health_check_status = [n \in ProbeNames |-> NoSample]
    /\ patched \in {p \in [ProbeNames -> StubResults \cup {NotPatched}] :
                       /\ p["database"] # NotPatched
                       /\ p["redis"] = NotPatched}
    /\ served = 0
    /\ wk = [w \in Pingers |-> IdleWorker]
    /\ stack = NoStack

NextPing ==
    \/ \E w \in Pingers : Request(w)
    \/ \E w \in Pingers : healthz_view(w)
    \/ \E w \in Pingers : stub_probe(w, "database")
    \/ \E w \in Pingers : redis_start(w)
    \/ \E w \in Pingers : redis_set(w)
    \/ \E w \in Pingers : redis_get(w)
    \/ \E w \in Pingers : redis_success(w)
    \/ \E w \in Pingers : redis_except(w)
    \/ \E w \in Pingers : ready_view_respond(w)

SpecPing == InitPing /\ [][NextPing]_vars

(***************************************************************************)
(* Properties                                                              *)
(***************************************************************************)
ZeroCounters == [c \in Counters |-> 0]

\* worker w holds a readiness report that ready_view returned
Reported(w) == wk[w].view = "ready" /\ wk[w].outcome = "response"

\* the positions of a worker inside the probe `name`
ProbePositions(name) ==
    IF name = "database"
    THEN {"database_query", "database_success", "database_except"}
    ELSE {"redis_set", "redis_get", "redis_success", "redis_except"}

\* the counter of successful round-trips of probe `name`
RoundTripOk(name) == IF name = "database" THEN "select_ok" ELSE "ping_ok"

\* C1: whatever result in {healthy, unhealthy, degraded} each of the two
\* probes returns, ready_view answers 200 with status "ready" when every
\* entry of checks is exactly "healthy" and 503 with "not_ready" in every
\* other case, a degraded entry included; code and status never disagree.
C1_ReadyIffAllHealthy ==
    \A w \in Workers :
        Reported(w) =>
            LET r == wk[w].response
                every == \A n \in DOMAIN r.checks : r.checks[n].status = "healthy"
            IN  /\ every => (r.code = 200 /\ r.status = "ready")
                /\ ~every => (r.code = 503 /\ r.status = "not_ready")
                /\ (r.code = 200) <=> (r.status = "ready")
                /\ (r.code = 503) <=> (r.status = "not_ready")

C1_Witness ==
    \E w \in Workers :
        /\ Reported(w)
        /\ wk[w].response.checks["database"].status = "healthy"
        /\ wk[w].response.checks["redis"].status = "degraded"
        /\ wk[w].response.code = 503
        /\ wk[w].response.status = "not_ready"

\* C2: in every state of the database and of the cache, and after earlier
\* requests, a liveness request that healthz_view handles to its return
\* statement is answered 200 with status "healthy"; the handler ends any
\* other way only when its own log call raises.
C2_HealthzAlwaysHealthy ==
    \A w \in Workers :
        /\ (wk[w].view = "healthz" /\ wk[w].pc = "done" /\ wk[w].raised_in = "none")
              => /\ wk[w].outcome = "response"
                 /\ wk[w].response.code = 200
                 /\ wk[w].response.status = "healthy"
        /\ (wk[w].view = "healthz" /\ wk[w].outcome = "response")
              => /\ wk[w].response.code = 200
                 /\ wk[w].response.status = "healthy"

C2_Witness ==
    \E w \in Workers :
        /\ wk[w].view = "healthz"
        /\ wk[w].outcome = "response"
        /\ wk[w].response.code = 200
        /\ ~db_up
        /\ ~cache_up
        /\ served > 1

\* C3: a probe never raises: every probe invocation that was entered and is
\* no longer running has returned a result, and that result is "unhealthy"
\* whenever the round-trip did not succeed.
C3_ProbeNeverRaises ==
    \A w \in Workers : \A n \in ProbeNames :
        (wk[w].cnt["call_" \o n] = 1 /\ wk[w].pc \notin ProbePositions(n))
           => /\ wk[w].raised_in # n \o "_health_check"
              /\ wk[w].cnt["ret_" \o n] = 1
              /\ n \in DOMAIN wk[w].checks
              /\ (wk[w].cnt[RoundTripOk(n)] = 0
                    => wk[w].checks[n].status = "unhealthy")

\* C4: a readiness evaluation never fails: whatever the dependencies and the
\* probes do, a finished ready_view has returned a report with status 200
\* or 503 (its own log call raising is left aside).
C4_ReadyNeverFails ==
    \A w \in Workers :
        (wk[w].view = "ready" /\ wk[w].pc = "done" /\ wk[w].raised_in # "ready_view")
           => /\ wk[w].outcome = "response"
              /\ wk[w].response.code \in {200, 503}

\* C5: the key set of checks in every report ready_view returns is exactly
\* {"database", "redis"}, whatever the outcome of each probe.
C5_ChecksKeys ==
    \A w \in Workers :
        Reported(w) => DOMAIN wk[w].response.checks = {"database", "redis"}

C5_Witness ==
    \E w \in Workers :
        /\ Reported(w)
        /\ wk[w].fault
        /\ wk[w].cnt["select_ok"] = 1
        /\ wk[w].response.checks["database"].status = "unhealthy"
        /\ wk[w].response.checks["redis"].status = "unhealthy"

\* C6: within one readiness evaluation the redis probe is entered only after
\* the database probe has returned, whatever it returned, and the aggregate
\* is computed and the report produced only once both probes have been
\* invoked and have returned: no report reflects a subset of the probes.
C6_AllProbesBeforeReport ==
    \A w \in Workers :
        wk[w].view = "ready" =>
            /\ wk[w].cnt["call_redis"] >= 1 => wk[w].cnt["ret_database"] = 1
            /\ (wk[w].pc = "aggregate" \/ wk[w].outcome = "response")
                  => /\ wk[w].cnt["call_database"] = 1
                     /\ wk[w].cnt["ret_database"] = 1
                     /\ wk[w].cnt["call_redis"] = 1
                     /\ wk[w].cnt["ret_redis"] = 1
                     /\ DOMAIN wk[w].checks = ProbeNames
            /\ wk[w].outcome = "response" => wk[w].response.checks = wk[w].checks

C6_Witness ==
    \E w \in Workers :
        /\ Reported(w)
        /\ wk[w].response.checks["database"].status = "unhealthy"
        /\ wk[w].response.checks["redis"].status = "healthy"
        /\ wk[w].cnt["call_redis"] = 1
        /\ wk[w].response.code = 503
        /\ wk[w].response.status = "not_ready"

\* C7: no retries: in one readiness evaluation each probe is entered at most
\* once and makes at most one SELECT round-trip, one cache set and one cache
\* get; a report is produced after exactly one invocation of each probe, one
\* SELECT attempt and one set attempt; the get follows a set that succeeded
\* and is made whenever the redis probe reports healthy.
C7_NoRetries ==
    \A w \in Workers :
        /\ \A c \in {"call_database", "call_redis", "select", "cache_set",
                     "cache_get"} : wk[w].cnt[c] <= 1
        /\ wk[w].cnt["cache_get"] = 1 => wk[w].cnt["cache_set"] = 1
        /\ Reported(w)
              => /\ wk[w].cnt["call_database"] = 1
                 /\ wk[w].cnt["call_redis"] = 1
                 /\ wk[w].cnt["select"] = 1
                 /\ wk[w].cnt["cache_set"] = 1
                 /\ wk[w].response.checks["redis"].status = "healthy"
                       => wk[w].cnt["cache_get"] = 1

C7_Witness ==
    \E w \in Workers :
        /\ Reported(w)
        /\ wk[w].cnt["select"] = 1
        /\ wk[w].cnt["select_ok"] = 0
        /\ wk[w].cnt["cache_set"] = 1
        /\ wk[w].cnt["cache_get"] = 1
        /\ wk[w].cnt["ping_ok"] = 0
        /\ wk[w].response.checks["database"].status = "unhealthy"
        /\ wk[w].response.checks["redis"].status = "unhealthy"

\* C8: a probe that has returned a result has recorded a latency observation
\* and a status-gauge set under its own name, on the success path and on the
\* failure path; when no instrumentation call of the request raised, it has
\* recorded exactly one of each.
C8_MetricsOnEveryPath ==
    \A w \in Workers : \A n \in ProbeNames :
        wk[w].cnt["ret_" \o n] = 1 =>
            /\ wk[w].cnt["observe_" \o n] >= 1
            /\ wk[w].cnt["set_" \o n] >= 1
            /\ health_check_duration[n] >= wk[w].cnt["observe_" \o n]
            /\ health_check_status[n] \in {0, 1}
            /\ ~wk[w].fault => /\ wk[w].cnt["observe_" \o n] = 1
                               /\ wk[w].cnt["set_" \o n] = 1

C8_Witness ==
    \E w \in Workers :
        /\ wk[w].cnt["ret_redis"] = 1
        /\ ~wk[w].fault
        /\ wk[w].checks["redis"].status = "unhealthy"
        /\ wk[w].cnt["observe_redis"] = 1
        /\ wk[w].cnt["set_redis"] = 1
        /\ wk[w].checks["database"].status = "healthy"
        /\ wk[w].cnt["observe_database"] = 1
        /\ wk[w].cnt["set_database"] = 1

\* C9: a probe's result is "healthy" exactly when its round-trip succeeded
\* (the SELECT for database; set, get and equal value for redis): never
\* healthy after a failed or mismatched round-trip, and healthy whenever the
\* round-trip succeeded.
C9_ProbeClassification ==
    \A w \in Workers : \A n \in ProbeNames :
        wk[w].cnt["ret_" \o n] = 1 =>
            ((wk[w].checks[n].status = "healthy")
                <=> (wk[w].cnt[RoundTripOk(n)] = 1))

\* C10: the step in which healthz_view handles a request invokes no probe,
\* makes no database query and no cache set or get, and leaves the latency
\* histogram, the status gauge and the cache probe key unchanged.
C10_HealthzFrame ==
    [][\A w \in Workers :
          (wk[w].pc = "healthz" /\ wk'[w].pc # "healthz")
             => /\ health_check_duration' = health_check_duration
                /\ health_check_status' = health_check_status
                /\ cache_store' = cache_store
                /\ wk'[w].cnt = ZeroCounters
                /\ wk'[w].checks = EmptyChecks]_vars

C10_Witness ==
    \E w \in Workers :
        /\ wk[w].view = "healthz"
        /\ wk[w].outcome = "response"
        /\ health_check_duration["database"] > 0
        /\ health_check_status["redis"] = 1
        /\ cache_store = PingValue

\* C11: the latency_ms of every result a probe returns is >= 0, on the
\* success path and on the exception path, for every pair of time.time()
\* readings taken at the start and at the end of the probe.
C11_LatencyNonNegative ==
    \A w \in Workers : \A n \in ProbeNames :
        wk[w].cnt["ret_" \o n] = 1 => wk[w].checks[n].latency_ms >= 0

\* C12: the message of every result a probe returns is a non-empty string,
\* also when the dependency call raised an exception whose str() is empty.
C12_MessageNonEmpty ==
    \A w \in Workers : \A n \in ProbeNames :
        wk[w].cnt["ret_" \o n] = 1 => Len(wk[w].checks[n].message) > 0

C12_Witness ==
    \E w \in Workers :
        /\ wk[w].cnt["ret_database"] = 1
        /\ wk[w].cnt["select_ok"] = 0
        /\ wk[w].checks["database"].status = "unhealthy"
        /\ wk[w].checks["database"].message = "Database connection failed: "

\* C20: once a probe invocation has returned, the value it last wrote to
\* health_check_status under its name (the value the gauge holds, no other
\* invocation having run since) is 1 when the returned status is "healthy"
\* and 0 when it is "unhealthy", on every path through the function.
C20_GaugeAgreesWithResult ==
    \A w \in Workers : \A n \in ProbeNames :
        wk[w].cnt["ret_" \o n] = 1 =>
            health_check_status[n] =
                (IF wk[w].checks[n].status = "healthy" THEN 1 ELSE 0)

C20_Witness ==
    \E w \in Workers :
        /\ wk[w].cnt["ret_database"] = 1
        /\ wk[w].cnt["select_ok"] = 1
        /\ wk[w].cnt["set_database"] = 2
        /\ wk[w].checks["database"].status = "unhealthy"
        /\ health_check_status["database"] = 0

\* the threads that entered MetricsMiddleware.__call__ and have not left it
InFlight == {t \in Threads : mm[t].pc # "idle"}

\* C13: under every interleaving of the request threads, active_requests
\* equals the number of requests that entered MetricsMiddleware.__call__
\* and have not left it, by return or by the handler's exception; the gauge
\* is never negative and is 0 when no request is in flight.
C13_NoLostUpdates ==
    /\ active_requests = Cardinality(InFlight)
    /\ active_requests >= 0
    /\ (InFlight = {} => active_requests = 0)

C13_Witness ==
    \E t1, t2 \in Threads :
        /\ mm[t1].pc = "finally" /\ mm[t1].outcome = "exception"
        /\ mm[t1].handled = 2
        /\ mm[t2].pc = "get_response"
        /\ active_requests = 2

\* r is the first comma-separated entry of header h without the spaces
\* around it
StrippedFirstEntry(h, r) ==
    \E n \in 0..Len(h) :
        /\ \A i \in 1..n : h[i] # ","
        /\ n = Len(h) \/ h[n + 1] = ","
        /\ \E a, b \in 0..n :
             /\ a + b <= n
             /\ \A i \in 1..a : h[i] = " "
             /\ \A i \in (n - b + 1)..n : h[i] = " "
             /\ r = SubSeq(h, a + 1, n - b)
             /\ r = <<>> \/ (r[1] # " " /\ r[Len(r)] # " ")

\* what is returned when the forwarded-for header is not used
PeerAddress == IF PEER \in DOMAIN meta THEN meta[PEER] ELSE <<>>

\* C18 as stated: _get_client_ip returns the first comma-separated entry of
\* X-Forwarded-For, stripped, whenever the header is present, and
\* REMOTE_ADDR (or the empty string) otherwise.
C18_FirstEntryWhenPresent ==
    ip.returned =>
        IF XFF \in DOMAIN meta
        THEN StrippedFirstEntry(meta[XFF], ip.value)
        ELSE ip.value = PeerAddress

\* C18 (amended): _get_client_ip returns the first comma-separated entry of
\* X-Forwarded-For, stripped, when the header is present and not empty;
\* when the header is absent or empty it returns REMOTE_ADDR, or the empty
\* string when REMOTE_ADDR is absent too.
C18_FirstEntryWhenNonEmpty ==
    ip.returned =>
        IF XFF \in DOMAIN meta /\ meta[XFF] # <<>>
        THEN StrippedFirstEntry(meta[XFF], ip.value)
        ELSE ip.value = PeerAddress

C18_Witness ==
    /\ ip.returned
    /\ XFF \in DOMAIN meta /\ meta[XFF] = <<" ", "a", ",">>
    /\ PEER \in DOMAIN meta /\ meta[PEER] = <<"c">>
    /\ ip.value = <<"a">>

\* C14: every response that left StructuredLoggingMiddleware carries in
\* X-Request-ID the identifier generated for its own request, and any two
\* responses, of one thread or of several, carry different values.
C14_HeaderIsOwnFreshId ==
    /\ \A r \in sent : r.header = r.generated
    /\ \A r1, r2 \in sent : r1 # r2 => r1.header # r2.header

C14_Witness ==
    /\ Cardinality(sent) = 2
    /\ \E t1, t2 \in Threads :
         /\ t1 # t2
         /\ lg[t1].left = "response" /\ lg[t2].left = "response"
         /\ lg[t1].request_id = 1 /\ lg[t2].request_id = 2
         /\ last_line[t2].event = "request_completed"
         /\ last_line[t1].event = "request_completed"
         /\ lg[t1].request = lg[t2].request

\* the context ctx holds the four keys of request r under identifier id,
\* and nothing else
OwnContext(ctx, r, id) ==
    /\ DOMAIN ctx = ContextKeys
    /\ ctx["request_id"] = id
    /\ ctx["method"] = r.method
    /\ ctx["path"] = r.path
    /\ ctx["ip_address"] = get_client_ip(r.META)

\* C15: on a worker that handles one request after another, every line
\* written while a request is handled (request_started, the view's and the
\* probes' lines, request_completed) carries that request's request_id,
\* method, path and ip_address and no key or value of an earlier request.
C15_NoLeakAcrossRequests ==
    \A t \in Threads :
        last_line[t] # NoLine =>
            OwnContext(last_line[t].context, last_line[t].request,
                       last_line[t].request_id)

C15_Witness ==
    \E t \in Threads :
        /\ lg[t].begun = 2
        /\ lg[t].pc = "get_response"
        /\ last_line[t] # NoLine
        /\ last_line[t].event = "request_started"
        /\ last_line[t].request_id = 2
        /\ last_line[t].request.method = "HEAD"
        /\ last_line[t].context["method"] = "HEAD"

\* C19: once StructuredLoggingMiddleware.__call__ is over for a request,
\* the ambient context of its thread no longer holds that request's
\* request_id: between requests the context carries no correlation state.
C19_ContextEndsWithRequest ==
    \A t \in Threads :
        lg[t].pc = "idle" => "request_id" \notin DOMAIN contextvars[t]

\* C16: a GET for /healthz is dispatched to healthz_view and a GET for
\* /ready to ready_view, by the root URL configuration together with the
\* health URL configuration it includes.
C16_Routing ==
    match # Unresolved =>
        /\ path_info = <<"healthz">> => match = "healthz_view"
        /\ path_info = <<"ready">> => match = "ready_view"

\* C17: both views answer without authentication: for the same dependency
\* state a request without credentials and one with valid credentials get
\* the same status code, 200 from healthz_view and 200 or 503 from
\* ready_view, and no answer is 401 or 403.
C17_PublicEndpoints ==
    /\ \A a \in answered :
         /\ a.code \notin {401, 403}
         /\ a.view = "healthz" => a.code = HTTP_200_OK
         /\ a.view = "ready" =>
              a.code \in {HTTP_200_OK, HTTP_503_SERVICE_UNAVAILABLE}
    /\ \A a, b \in answered : a.view = b.view => a.code = b.code

C17_Witness ==
    /\ [view |-> "ready", credentials |-> "none",
        code |-> HTTP_503_SERVICE_UNAVAILABLE] \in answered
    /\ [view |-> "ready", credentials |-> "valid",
        code |-> HTTP_503_SERVICE_UNAVAILABLE] \in answered

\* C21: one probe invocation records at most one latency observation in
\* health_check_duration under its name, on every path through the
\* function, the path included on which a call of the try block raises after
\* the round-trip succeeded and the success-path observation was made.
C21_AtMostOneObservation ==
    \A w \in Workers : \A n \in ProbeNames :
        wk[w].cnt["observe_" \o n] <= 1

\* every cache probe that has returned found its own write answered: it
\* read back "ping" and did not raise "Redis value mismatch"
ReadsBackPing ==
    \A w \in Pingers :
        wk[w].cnt["ret_redis"] = 1 =>
            /\ wk[w].cnt["ping_ok"] = 1
            /\ wk[w].checks["redis"].message # "Redis connection failed: " \o MismatchError

\* C22: concurrent readiness evaluations do not make each other's cache
\* probe fail: under every interleaving of their set and get steps against
\* a cache that is up and returns the value written last, every probe reads
\* back "ping" and returns "healthy".
C22_ConcurrentPingsHealthy ==
    /\ ReadsBackPing
    /\ \A w \in Pingers :
         wk[w].cnt["ret_redis"] = 1 => wk[w].checks["redis"].status = "healthy"

====
